---- MODULE Spec2Model ----
(***************************************************************************)
(* PortalStorage (trin-core/src/portalnet/storage.rs): the radius-bounded  *)
(* content store of a portal-network node.  The state is the engine's      *)
(* in-memory fields and the two persisted collaborators (the RocksDB       *)
(* content store and the SQLite content_keys table).  A panic of the       *)
(* engine (expect or unwrap on an Err or a None) ends the instance; what   *)
(* was already written to the collaborators stays, and PortalStorage::new  *)
(* builds the next instance over it.                                       *)
(***************************************************************************)
EXTENDS Integers, Sequences, FiniteSets, Bags, TLC

\* ------------------------------------------------------------------ bounds
\* Width of one byte in bits (8 in the program; scaled so that a u64 fits
\* the model checker's integers).
ByteBits == 2
\* A store is taken while the content_keys table holds fewer rows than this
\* and the content store would hold at most this many keys.
MaxRows == 3
\* Number of bytes of a node id and of a full-length key (32 in the program;
\* the engine reads the first U64Bytes, the rest only tell keys apart).
IdLen == 9

\* ------------------------------------------------------- program constants
\* Number of bytes byte_vector_to_u64 takes.
U64Bytes == 8
\* storage_capacity_kb, as the tests of storage.rs configure the engine.
Capacity == 100

Base == 2 ^ ByteBits
Top == Base - 1
\* u64::MAX at the modelled byte width.
U64MAX == (Base ^ U64Bytes) - 1

\* Option<T>: None is the empty set, Some(x) the singleton.
None == {}
Some(x) == {x}
unwrap(o) == CHOOSE x \in o : TRUE

\* ------------------------------------------------------------ input domain
\* An IdLen-byte string with the given leading bytes and last byte.
Id(prefix, tail) ==
    [i \in 1..IdLen |->
        IF i <= Len(prefix) THEN prefix[i] ELSE IF i = IdLen THEN tail ELSE 0]

NodeOne == Id(<<1, 0, 0, 0, 0, 0, 0, 0>>, 0)
NodeIds == {NodeOne}

\* The key whose first eight bytes are the largest.
KeyTop == Id(<<Top, Top, Top, Top, Top, Top, Top, Top>>, 0)
\* The complement of NodeOne's first eight bytes.
KeyFar == Id(<<Top - 1, Top, Top, Top, Top, Top, Top, Top>>, 0)
\* Two distinct keys with the same first eight bytes.
KeyTwoA == Id(<<2, 0, 0, 0, 0, 0, 0, 0>>, 0)
KeyTwoB == Id(<<2, 0, 0, 0, 0, 0, 0, 0>>, 1)
\* The key whose bytes are the node id's.
KeyNode == NodeOne
Keys == {KeyTop, KeyFar, KeyTwoA, KeyTwoB, KeyNode}
Values == {"v1", "v2"}
\* What the usage probe may report: under, at and over the capacity.
Usages == {Capacity - 1, Capacity, Capacity + 1}
Faults == {"none", "put", "insert", "delete", "meta_delete", "usage"}

VARIABLES
    node_id,              \* config.node_id
    storage_capacity_kb,  \* config.storage_capacity_kb
    data_radius,
    farthest_key,         \* Option<String>
    db,                   \* the RocksDB content store: key -> value
    meta_db,              \* the content_keys table: a bag of content_key values
    capacity_reached,
    panicked              \* the instance ended in a panic

vars == <<node_id, storage_capacity_kb, data_radius, farthest_key, db, meta_db,
          capacity_reached, panicked>>

\* ------------------------------------------------------------ the metric
RECURSIVE xor_byte(_, _)
xor_byte(a, b) ==
    IF a = 0 /\ b = 0 THEN 0
    ELSE ((a + b) % 2) + 2 * xor_byte(a \div 2, b \div 2)

xor_two_values(first, second) ==
    LET n == IF Len(first) < Len(second) THEN Len(first) ELSE Len(second)
    IN [i \in 1..n |-> xor_byte(first[i], second[i])]

\* The big-endian value of the first n bytes of array.
RECURSIVE be_value(_, _)
be_value(array, n) ==
    IF n = 0 THEN 0 ELSE be_value(array, n - 1) * Base + array[n]

from_be_bytes(array) == be_value(array, Len(array))

byte_vector_to_u64(vec) ==
    IF Len(vec) < U64Bytes THEN 0
    ELSE from_be_bytes(SubSeq(vec, 1, U64Bytes))

\* Mutant: the key's own projection, without the XOR against node_id.
distance_to_key_raw(key) == byte_vector_to_u64(key)

distance_to_key(key) == byte_vector_to_u64(xor_two_values(key, node_id))

\* ------------------------------------------------------ the collaborators
\* Mutant: a put that leaves the value of a key already present.
db_put_keeping(store, key, value) ==
    [k \in DOMAIN store \cup {key} |-> IF k \in DOMAIN store THEN store[k] ELSE value]

db_put(store, key, value) ==
    [k \in DOMAIN store \cup {key} |-> IF k = key THEN value ELSE store[k]]

db_delete(store, key) == [k \in DOMAIN store \ {key} |-> store[k]]

db_get(store, key) == IF key \in DOMAIN store THEN Some(store[key]) ELSE None

\* Mutant: the INSERT is lost.
meta_insert_lost(rows, content_key) == rows

\* INSERT INTO content_keys (content_key) values (?1)
meta_insert(rows, content_key) == rows (+) SetToBag({content_key})

\* DELETE FROM content_keys WHERE content_key = (?1)
meta_delete(rows, content_key) ==
    [c \in DOMAIN rows \ {content_key} |-> rows[c]]

\* ------------------------------------------------------------- the engine
\* find_farthest returns Ok(key) or Err, or panics.
Panic == [kind |-> "Panic", key |-> <<>>]
Ok(key) == [kind |-> "Ok", key |-> key]

\* Mutant: a query that prepares and orders by the content_key column
\* itself instead of by its XOR with the node id.
find_farthest_by_column(rows) ==
    IF BagToSet(rows) = {} THEN Panic
    ELSE LET top == CHOOSE c \in BagToSet(rows) : \A d \in BagToSet(rows) : d <= c
         IN Ok(CHOOSE k \in Keys : byte_vector_to_u64(k) = top)

\* prepare() of a text that is no SQL statement returns Err, and the unwrap
\* on it panics before any row is read.
find_farthest(rows) == Panic

\* Mutant: the comparison without the u64::MAX case.
should_store_unguarded(key) == distance_to_key(key) < data_radius

should_store(key) ==
    IF data_radius < U64MAX THEN distance_to_key(key) < data_radius ELSE TRUE

\* The fields of self, as a store call finds them.
Fields ==
    [db |-> db, meta_db |-> meta_db, data_radius |-> data_radius,
     farthest_key |-> farthest_key, capacity_reached |-> capacity_reached,
     panicked |-> FALSE]

\* A failed expect or unwrap: the call ends, the writes made so far stay.
Panicked(s) == [s EXCEPT !.panicked = TRUE]

\* db.put and the INSERT that follows it.
write_through(s, key, value, fault) ==
    IF fault = "put" THEN Panicked(s)
    ELSE LET s1 == [s EXCEPT !.db = db_put(s.db, key, value)]
         IN IF fault = "insert" THEN Panicked(s1)
            ELSE [s1 EXCEPT !.meta_db =
                     meta_insert(s1.meta_db, byte_vector_to_u64(key))]

\* Mutant: the eviction clears capacity_reached once it has deleted.
evict_resetting(s, fault) ==
    IF s.farthest_key = None \/ fault = "delete" THEN Panicked(s)
    ELSE LET key_to_remove == unwrap(s.farthest_key)
             s1 == [s EXCEPT !.db = db_delete(s.db, key_to_remove)]
             s2 == [s1 EXCEPT !.meta_db =
                       meta_delete(s1.meta_db, byte_vector_to_u64(key_to_remove)),
                              !.capacity_reached = FALSE]
             found == find_farthest(s2.meta_db)
         IN IF fault = "meta_delete" THEN Panicked(s1)
            ELSE IF found.kind = "Panic" THEN Panicked(s2)
            ELSE IF found.kind = "Err" THEN s2
            ELSE [s2 EXCEPT !.farthest_key = Some(found.key),
                            !.data_radius = distance_to_key(found.key)]

\* The branch taken when capacity_reached is set: delete farthest_key from
\* both collaborators, then match on find_farthest.
evict(s, fault) ==
    IF s.farthest_key = None \/ fault = "delete" THEN Panicked(s)
    ELSE LET key_to_remove == unwrap(s.farthest_key)
             s1 == [s EXCEPT !.db = db_delete(s.db, key_to_remove)]
             s2 == [s1 EXCEPT !.meta_db =
                       meta_delete(s1.meta_db, byte_vector_to_u64(key_to_remove))]
             found == find_farthest(s2.meta_db)
         IN IF fault = "meta_delete" THEN Panicked(s1)
            ELSE IF found.kind = "Panic" THEN Panicked(s2)
            ELSE IF found.kind = "Err" THEN s2
            ELSE [s2 EXCEPT !.farthest_key = Some(found.key),
                            !.data_radius = distance_to_key(found.key)]

\* The branch taken when capacity_reached is not set: the usage check.
\* Mutant: the flag is set as soon as usage equals the capacity.
capacity_check_at_capacity(s, data_usage, fault) ==
    IF fault = "usage" THEN Panicked(s)
    ELSE IF data_usage >= storage_capacity_kb
         THEN [s EXCEPT !.capacity_reached = TRUE]
         ELSE s

capacity_check(s, data_usage, fault) ==
    IF fault = "usage" THEN Panicked(s)
    ELSE IF data_usage > storage_capacity_kb
         THEN [s EXCEPT !.capacity_reached = TRUE]
         ELSE s

\* The final match on farthest_key.
update_farthest(s, key) ==
    IF s.farthest_key = None
    THEN [s EXCEPT !.farthest_key = Some(key)]
    ELSE IF distance_to_key(key) > distance_to_key(unwrap(s.farthest_key))
         THEN [s EXCEPT !.farthest_key = Some(key)]
         ELSE s

\* store(key, value): the fields after the call.  data_usage is what the
\* usage probe reports; fault names the collaborator call that fails.
store(key, value, data_usage, fault) ==
    IF ~should_store(key) THEN Fields
    ELSE LET written == write_through(Fields, key, value, fault)
             managed == IF written.capacity_reached
                        THEN evict(written, fault)
                        ELSE capacity_check(written, data_usage, fault)
         IN IF written.panicked THEN written
            ELSE IF managed.panicked THEN managed
            ELSE update_farthest(managed, key)

\* ------------------------------------------------------------ the actions
Init ==
    /\ node_id \in NodeIds
    /\ storage_capacity_kb = Capacity
    /\ data_radius = U64MAX
    /\ farthest_key = None
    /\ db = <<>>
    /\ meta_db = EmptyBag
    /\ capacity_reached = FALSE
    /\ panicked = FALSE

\* PortalStorage::new over the data directory as it is.
\* Mutant: a constructor that reloads farthest_key from the persisted keys.
New_reloading ==
    /\ data_radius' = U64MAX
    /\ farthest_key' =
          IF DOMAIN db = {} THEN None
          ELSE Some(CHOOSE k \in DOMAIN db :
                      \A j \in DOMAIN db : distance_to_key(j) <= distance_to_key(k))
    /\ capacity_reached' = FALSE
    /\ panicked' = FALSE
    /\ UNCHANGED <<node_id, storage_capacity_kb, db, meta_db>>

New ==
    /\ data_radius' = U64MAX
    /\ farthest_key' = None
    /\ capacity_reached' = FALSE
    /\ panicked' = FALSE
    /\ UNCHANGED <<node_id, storage_capacity_kb, db, meta_db>>

Store(key, value, data_usage, fault) ==
    /\ ~panicked
    \* only a call that store makes can fail or report
    /\ capacity_reached => (data_usage = Capacity /\ fault # "usage")
    /\ ~capacity_reached => fault \notin {"delete", "meta_delete"}
    /\ BagCardinality(meta_db) < MaxRows
    /\ Cardinality(DOMAIN db \cup {key}) <= MaxRows
    /\ \E s \in {store(key, value, data_usage, fault)} :
          /\ db' = s.db
          /\ meta_db' = s.meta_db
          /\ data_radius' = s.data_radius
          /\ farthest_key' = s.farthest_key
          /\ capacity_reached' = s.capacity_reached
          /\ panicked' = s.panicked
    /\ UNCHANGED <<node_id, storage_capacity_kb>>

\* The calls that take &self leave every field and both collaborators as
\* they are; what each returns is the operator of the same name.
get(key) == db_get(db, key)

get_current_radius == data_radius

Get(key) ==
    /\ ~panicked
    /\ get(key) \in {None} \cup {Some(v) : v \in Values}
    /\ UNCHANGED vars

ShouldStore(key) ==
    /\ ~panicked
    /\ should_store(key) \in BOOLEAN
    /\ UNCHANGED vars

GetCurrentRadius ==
    /\ ~panicked
    /\ get_current_radius \in 0..U64MAX
    /\ UNCHANGED vars

DistanceToKey(key) ==
    /\ ~panicked
    /\ distance_to_key(key) \in 0..U64MAX
    /\ UNCHANGED vars

Next ==
    \/ New
    \/ \E key \in Keys, value \in Values, data_usage \in Usages, fault \in Faults :
          Store(key, value, data_usage, fault)
    \/ \E key \in Keys : Get(key)
    \/ \E key \in Keys : ShouldStore(key)
    \/ GetCurrentRadius
    \/ \E key \in Keys : DistanceToKey(key)

Spec == Init /\ [][Next]_vars

\* ------------------------------------------------------------- the claims
\* A step that changes anything is a construction or a store call: the
\* other calls leave every variable as it is.
StoreStep == ~New

\* The content_keys table holds 64-bit projections: the projections of the
\* keys in the content store are exactly the values in the table.
ProjectionOf == [k \in Keys |-> byte_vector_to_u64(k)]

Lockstep == {ProjectionOf[k] : k \in DOMAIN db} = BagToSet(meta_db)

StoredKeys == DOMAIN db

C2_WithinRadius ==
    (~panicked /\ capacity_reached) =>
        \A k \in StoredKeys : distance_to_key(k) <= data_radius

C2_Witness ==
    /\ ~panicked
    /\ capacity_reached
    /\ Cardinality(StoredKeys) >= 2

\* C3: no store call increases data_radius.
C3_RadiusNeverIncreases == [][StoreStep => data_radius' <= data_radius]_vars

C3_Witness ==
    /\ ~panicked
    /\ capacity_reached
    /\ StoredKeys # {}
    /\ data_radius = U64MAX

\* C4 (as claimed): whenever capacity_reached is set after a completed store
\* call, data_radius is the distance of farthest_key.
C4_RadiusIsFarthest ==
    (~panicked /\ capacity_reached /\ farthest_key # None) =>
        data_radius = distance_to_key(unwrap(farthest_key))

C6_FarthestIsMaximal ==
    (~panicked /\ StoredKeys # {}) =>
        /\ farthest_key # None
        /\ \A k \in StoredKeys :
              distance_to_key(k) <= distance_to_key(unwrap(farthest_key))

\* C7: while capacity_reached is not set, data_radius is u64::MAX and
\* should_store accepts every key.
C7_OpenBeforeCapacity ==
    ~capacity_reached =>
        /\ data_radius = U64MAX
        /\ \A k \in Keys : should_store(k)

C7_Witness ==
    /\ ~panicked
    /\ ~capacity_reached
    /\ \E k \in StoredKeys : distance_to_key(k) = U64MAX

\* C8 (as claimed): with capacity_reached set, should_store(key) is exactly
\* distance_to_key(key) < data_radius, also while data_radius is u64::MAX.
C8_StrictEverywhere ==
    capacity_reached =>
        \A k \in Keys : should_store(k) <=> (distance_to_key(k) < data_radius)

\* C8 (amended): with capacity_reached set, should_store(key) is true exactly
\* when data_radius is u64::MAX or distance_to_key(key) < data_radius.
C8_StrictOnceFinite ==
    capacity_reached =>
        \A k \in Keys :
            should_store(k) <=>
                (data_radius = U64MAX \/ distance_to_key(k) < data_radius)

C8_Witness ==
    /\ ~panicked
    /\ capacity_reached
    /\ \E k \in Keys : distance_to_key(k) = data_radius /\ should_store(k)

\* C9: within one engine instance capacity_reached, once set, stays set.
C9_Sticky == [][(capacity_reached /\ ~New) => capacity_reached']_vars

C9_Witness ==
    /\ panicked
    /\ capacity_reached
    /\ StoredKeys # {}

\* C11: a store call entered with capacity_reached unset, none of whose
\* collaborators fails, completes and leaves get(key) = value and every other key as it was, and leaves
\* get_current_radius() at u64::MAX when the usage probe reports no more
\* than storage_capacity_kb.
C11_StoredAndReadBack ==
    []((~panicked /\ ~capacity_reached) =>
        \A key \in Keys, value \in Values, data_usage \in Usages :
            LET s == store(key, value, data_usage, "none")
            IN  /\ ~s.panicked
                /\ db_get(s.db, key) = Some(value)
                /\ \A k \in Keys \ {key} : db_get(s.db, k) = db_get(db, k)
                /\ data_usage <= storage_capacity_kb => s.data_radius = U64MAX)

C11_Witness ==
    /\ ~panicked
    /\ ~capacity_reached
    /\ get_current_radius = U64MAX
    /\ \E k1, k2 \in StoredKeys : k1 # k2 /\ get(k1) = Some("v1") /\ get(k2) = Some("v2")

\* The number of rows of the content_keys table that hold content_key.
Rows(rows, content_key) == CopiesIn(content_key, rows)

\* C12 (as claimed): with capacity_reached unset and (key, value) stored
\* under one index row, storing (key, value) again leaves get(key) = value
\* and still one index row for the key.
C12_NoDuplicateRow ==
    (~panicked /\ ~capacity_reached) =>
        \A key \in StoredKeys, data_usage \in Usages :
            LET s == store(key, db[key], data_usage, "none")
            IN Rows(meta_db, byte_vector_to_u64(key)) = 1 =>
                /\ db_get(s.db, key) = Some(db[key])
                /\ Rows(s.meta_db, byte_vector_to_u64(key)) = 1

MaxDistance(keys) ==
    CHOOSE d \in {distance_to_key(k) : k \in keys} :
        \A k \in keys : distance_to_key(k) <= d

\* C14 (as claimed): every admitted store call entered with
\* capacity_reached set completes having removed the entry farthest_key
\* and no other from the content store and the index, with data_radius the
\* largest distance among the keys that remain.
C14_EvictsFarthestOnly ==
    (~panicked /\ capacity_reached /\ farthest_key # None) =>
        \A key \in Keys, value \in Values :
            LET s == store(key, value, Capacity, "none")
                evicted == unwrap(farthest_key)
                kept == (StoredKeys \cup {key}) \ {evicted}
            IN should_store(key) =>
                /\ ~s.panicked
                /\ db_get(s.db, evicted) = None
                /\ Rows(s.meta_db, ProjectionOf[evicted]) = 0
                /\ DOMAIN s.db = kept
                /\ \A k \in kept : Rows(s.meta_db, ProjectionOf[k]) > 0
                /\ kept # {} => s.data_radius = MaxDistance(kept)

\* Engines over a range of node ids, for the properties of the metric.
MetricNodeIds == {Id(<<a, 0, 0, 0, 0, 0, 0, b>>, 0) : a, b \in 0..Top}

InitMetric ==
    /\ node_id \in MetricNodeIds
    /\ storage_capacity_kb = Capacity
    /\ data_radius = U64MAX
    /\ farthest_key = None
    /\ db = <<>>
    /\ meta_db = EmptyBag
    /\ capacity_reached = FALSE
    /\ panicked = FALSE

NextMetric ==
    \/ \E key \in {node_id, KeyTop}, value \in Values :
          Store(key, value, Capacity, "none")
    \/ \E key \in Keys \cup {node_id} : DistanceToKey(key)

SpecMetric == InitMetric /\ [][NextMetric]_vars

\* C15: for every node id, the distance of the key made of the node id's
\* bytes is 0, and no step of the engine changes the distance
\* distance_to_key returns for a key.
C15_SelfDistanceStable ==
    [][/\ distance_to_key(node_id) = 0
       /\ distance_to_key(node_id)' = 0
       /\ \A key \in Keys \cup {node_id} :
              distance_to_key(key)' = distance_to_key(key)]_vars

C15_Witness ==
    /\ node_id # NodeOne
    /\ byte_vector_to_u64(node_id) # 0
    /\ StoredKeys = {node_id, KeyTop}
    /\ distance_to_key(node_id) = 0
    /\ distance_to_key(KeyTop) # 0

\* The content_keys rows the farthest query of store(key, ..) runs over.
RowsAtQuery(key) ==
    meta_delete(meta_insert(meta_db, ProjectionOf[key]),
                ProjectionOf[unwrap(farthest_key)])

\* C16 (as claimed): a store call whose farthest query fails or finds
\* nothing still completes, leaves data_radius as it was, and makes the
\* key just stored the farthest_key.
C16_FailedQueryTolerated ==
    (~panicked /\ capacity_reached /\ farthest_key # None) =>
        \A key \in Keys, value \in Values :
            LET s == store(key, value, Capacity, "none")
            IN find_farthest(RowsAtQuery(key)).kind # "Ok" =>
                /\ ~s.panicked
                /\ s.data_radius = data_radius
                /\ s.farthest_key = Some(key)

\* C17 (as claimed): a store call whose content write succeeds and whose
\* index insert fails leaves the key in neither the content store nor
\* the index, and data_radius, farthest_key and capacity_reached as they
\* were.
C17_NoHalfCommit ==
    ~panicked =>
        \A key \in Keys \ StoredKeys, value \in Values, data_usage \in Usages :
            LET s == store(key, value, data_usage, "insert")
            IN /\ db_get(s.db, key) = None
               /\ Rows(s.meta_db, ProjectionOf[key]) = Rows(meta_db, ProjectionOf[key])
               /\ s.data_radius = data_radius
               /\ s.farthest_key = farthest_key
               /\ s.capacity_reached = capacity_reached

\* C18: a store call sets capacity_reached exactly when it is entered with
\* the flag unset, completes, and the usage probe reports strictly more
\* than storage_capacity_kb; that call removes nothing; and with the flag
\* set the outcome of store does not depend on the usage reading.
C18_FlipOnStrictOverflow ==
    [](/\ (~panicked /\ ~capacity_reached) =>
            \A key \in Keys, value \in Values, data_usage \in Usages,
               fault \in Faults \ {"delete", "meta_delete"} :
                LET s == store(key, value, data_usage, fault)
                IN /\ s.capacity_reached <=>
                        (~s.panicked /\ data_usage > storage_capacity_kb)
                   /\ s.capacity_reached =>
                        /\ s.db = db_put(db, key, value)
                        /\ s.meta_db = meta_insert(meta_db, ProjectionOf[key])
       /\ (~panicked /\ capacity_reached) =>
            \A key \in Keys, value \in Values, fault \in Faults \ {"usage"} :
                LET s == store(key, value, Capacity - 1, fault)
                IN /\ s.capacity_reached
                   /\ store(key, value, Capacity + 1, fault) = s)

C18_Witness ==
    /\ ~panicked
    /\ capacity_reached
    /\ Cardinality(StoredKeys) > 1
    /\ BagCardinality(meta_db) = Cardinality(StoredKeys)

\* C19 (as claimed): with capacity_reached set, no store call leaves more
\* keys in the content store than it found.
C19_CountNeverGrows ==
    (~panicked /\ capacity_reached) =>
        \A key \in Keys, value \in Values, fault \in Faults :
            Cardinality(DOMAIN store(key, value, Capacity, fault).db)
                <= Cardinality(StoredKeys)

\* The fields as PortalStorage::new sets them.
Fresh ==
    /\ data_radius = U64MAX
    /\ farthest_key = None
    /\ ~capacity_reached
    /\ ~panicked

\* C20: construction, over an empty or a populated data directory, gives
\* data_radius = u64::MAX, farthest_key = None and capacity_reached unset
\* and leaves the content store and the index as they were; the first
\* store after it makes its own key the farthest_key, whatever keys are
\* already persisted.
C20_FreshOnRestart ==
    /\ [][New => (Fresh' /\ db' = db /\ meta_db' = meta_db)]_vars
    /\ []((~panicked /\ farthest_key = None) =>
            /\ Fresh
            /\ \A key \in Keys, value \in Values, data_usage \in Usages :
                  LET s == store(key, value, data_usage, "none")
                  IN ~s.panicked /\ s.farthest_key = Some(key))

C20_Witness ==
    /\ ~panicked
    /\ ~capacity_reached
    /\ farthest_key # None
    /\ \E k \in StoredKeys :
          distance_to_key(k) > distance_to_key(unwrap(farthest_key))

====
